---- MODULE Spec2Model ----
(***************************************************************************)
(* Clocked model of amlib/debug/ila.py.                                    *)
(*                                                                         *)
(* IntegratedLogicAnalyzer is a synchronous circuit: every register is     *)
(* updated on the clock edge from the values the registers and the inputs  *)
(* had just before the edge.  One step of the model is one clock edge.     *)
(* The inputs (trigger, enable, the signal bundle) are chosen freely by the *)
(* environment on every edge.  The readback address feeds the              *)
(* combinational read port only: captured_sample is an operator of it.     *)
(***************************************************************************)
EXTENDS Integers, Sequences, FiniteSets, TLC

\* Largest sample_depth and samples_pretrigger explored.
MaxDepth == 3
MaxPretrigger == 3

\* The monitored bundle is one signal of one bit.  The environment either
\* holds it at 0 ("steady") or drives it freely ("varying"); a varying bundle
\* is explored for samples_pretrigger + sample_depth <= MaxVarying.
MaxVarying == 3

\* Triggers counted per run of StreamILA, and the most the environment
\* raises when the stream crosses into another clock domain.
MaxBursts == 1

\* Largest sample_depth explored with the stream in its own clock domain.
MaxCdcDepth == 2

\* Fewest clock ticks the SPI word shifter holds a word before it loads the
\* next one.  A word is bits_per_sample >= 32 serial clock edges long and an
\* edge is detected on a tick of the sync clock, so the true number is 32 or
\* more.
MinWordTicks == 2

\* Most signals handed to an ILA in the host-frontend configurations.
MaxSignals == 2

\* Most refresh() calls a host makes in one run.
MaxRefreshes == 2

\* Most calls a host makes that enumerate the samples.
MaxEnumerations == 2

\* Widest sample the word-size configurations are built with.
MaxWidth == 130
Samples == {0, 1}
Bit == {0, 1}

VARIABLES
    \* configuration (IntegratedLogicAnalyzer.__init__)
    sample_depth, samples_pretrigger, with_enable,
    \* environment: how the monitored bundle is driven
    stimulus,
    \* registers of IntegratedLogicAnalyzer.elaborate
    fsm, write_position, complete, mem,
    delayed_inputs_r, delayed_enable_r,
    synced_inputs_ff, synced_enable_ff,
    pretrigger_fill_counter, pretrigger_fifo,
    \* observers: they record what happened, the circuit never reads them
    session_writes, armed, stray_write, wrote_disabled, trigger_in_capture,
    ticks, hist, held, trig_hist, trig_enable, trig_primed, trig_held, post,
    last_written,
    \* StreamILA: configuration, registers of elaborate, observers
    o_domain, send_fsm, current_sample_number, first, cdc,
    triggers, burst, out_words, blocked,
    \* SyncSerialILA: the constructor's cs_idles_high, registers of
    \* elaborate and of the SPI word shifter, observers
    cs_idles_high,
    spi_cs_past, spi_current_sample_number, spi_captured_sample_number,
    spi_current_tx, spi_word_accepted,
    spi_gap, spi_settled, spi_shifted, spi_after_complete, spi_after_settled,
    \* AsyncSerialILAFrontend: the ILA's signals, the serial port, the cache
    \* and observers
    signals, values, port, samples, parsed,
    refreshes, port_reads, read_length, failed, installed,
    \* the word size a wrapper computes; ILAFrontend: enumerations, the
    \* waveform and layout written, interactive_display's temporary files
    word_size, enumerations, enumerated, vcd, vcd_header, gtkw,
    files, written, display_result

vars == << sample_depth, samples_pretrigger, with_enable, stimulus,
           fsm, write_position, complete, mem,
           delayed_inputs_r, delayed_enable_r,
           synced_inputs_ff, synced_enable_ff,
           pretrigger_fill_counter, pretrigger_fifo,
           session_writes, armed, stray_write, wrote_disabled,
           trigger_in_capture,
           ticks, hist, held, trig_hist, trig_enable, trig_primed, trig_held,
           post, last_written,
           o_domain, send_fsm, current_sample_number, first, cdc,
           triggers, burst, out_words, blocked,
           cs_idles_high,
           spi_cs_past, spi_current_sample_number, spi_captured_sample_number,
           spi_current_tx, spi_word_accepted,
           spi_gap, spi_settled, spi_shifted, spi_after_complete,
           spi_after_settled,
           signals, values, port, samples, parsed,
           refreshes, port_reads, read_length, failed, installed,
           word_size, enumerations, enumerated, vcd, vcd_header, gtkw,
           files, written, display_result >>

\* The observers of IntegratedLogicAnalyzer.
engine_observers ==
    << session_writes, armed, stray_write, wrote_disabled, trigger_in_capture,
       ticks, hist, held, trig_hist, trig_enable, trig_primed, trig_held,
       post, last_written >>

\* The signals of the StreamILA wrapper.
stream_vars ==
    << o_domain, send_fsm, current_sample_number, first, cdc,
       triggers, burst, out_words, blocked >>

\* The signals of the SyncSerialILA wrapper.
spi_vars ==
    << cs_idles_high,
       spi_cs_past, spi_current_sample_number, spi_captured_sample_number,
       spi_current_tx, spi_word_accepted,
       spi_gap, spi_settled, spi_shifted, spi_after_complete,
       spi_after_settled >>

Min(a, b) == IF a < b THEN a ELSE b

RECURSIVE Pow2(_)
Pow2(n) == IF n = 0 THEN 1 ELSE 2 * Pow2(n - 1)

\* amaranth bits_for(n) for n >= 0: the width of Signal(range(0, n + 1)).
RECURSIVE BitsFor(_)
BitsFor(n) == IF n <= 1 THEN 1 ELSE 1 + BitsFor(n \div 2)

\* Width of the address of Memory(depth = d): ceil(log2(d)).
AddrBits(d) == IF d = 1 THEN 0 ELSE BitsFor(d - 1)

\* A sampled word: its value v and, as an observer tag, the enable e that
\* accompanied it on the edge it was sampled.  A register that still holds its
\* reset value holds the word 0 and the tag 2: it is not a sample.
Datum(v, e) == [v |-> v, e |-> e]
ResetDatum == Datum(0, 2)

\* An entry of the pretrigger FIFO: the word and the enable bit (w_data[-1]).
Entry(d, en) == [d |-> d, en |-> en]
ResetEntry == Entry(ResetDatum, 0)

(***************************************************************************)
(* FFSynchronizer(i, o), two stages: stage0 <= i, stage1 <= stage0,        *)
(* o = stage1.                                                             *)
(***************************************************************************)
FFSynchronizer(ff, i) == << i, ff[1] >>

(***************************************************************************)
(* SyncFIFOBuffered(depth = samples_pretrigger + 1): an inner non-FWFT     *)
(* queue of depth - 1 entries whose output register is one more storage    *)
(* element.  The inner queue's memory and its produce/consume pointers are *)
(* kept as the sequence of the entries written and not yet read, oldest    *)
(* first.  One clock edge with the given w_en, w_data, r_en:               *)
(*   w_rdy = the inner queue is not full, a write needs w_en and w_rdy;    *)
(*   the inner queue is read into the output register when it is not empty *)
(*   and the register is free (r_rdy = 0) or is being read (r_en = 1);     *)
(*   r_rdy is set by an inner read and otherwise cleared by r_en.          *)
(* r_data is the output register whether or not r_rdy is high.             *)
(***************************************************************************)
InnerDepth == samples_pretrigger

SyncFIFOBuffered(f, w_en, w_data, r_en) ==
    LET w_rdy      == Len(f.inner) # InnerDepth
        inner_rdy  == Len(f.inner) # 0
        do_write   == w_en = 1 /\ w_rdy
        inner_read == inner_rdy /\ (f.r_rdy = 0 \/ r_en = 1)
        kept       == IF inner_read THEN Tail(f.inner) ELSE f.inner
    IN  [ inner  |-> IF do_write THEN Append(kept, w_data) ELSE kept,
          r_data |-> IF inner_read THEN Head(f.inner) ELSE f.r_data,
          r_rdy  |-> IF inner_read THEN 1 ELSE IF r_en = 1 THEN 0 ELSE f.r_rdy ]

EmptyFifo == [ inner |-> << >>, r_data |-> ResetEntry, r_rdy |-> 0 ]

(***************************************************************************)
(* Combinational signals of the pretrigger pipeline.                       *)
(***************************************************************************)
synced_inputs == synced_inputs_ff[2]

synced_enable == IF with_enable THEN synced_enable_ff[2] ELSE 1

pretrigger_filled ==
    IF pretrigger_fill_counter >= samples_pretrigger - 1 THEN 1 ELSE 0

\* Mutant of delayed_inputs: the writer is fed from the synchronizer in every
\* configuration, also without pretrigger samples.
delayed_inputs_Synced == synced_inputs_ff[2]

delayed_inputs ==
    IF samples_pretrigger = 0 THEN delayed_inputs_r
    ELSE IF samples_pretrigger = 1 THEN synced_inputs
    ELSE pretrigger_fifo.r_data.d

delayed_enable ==
    IF samples_pretrigger = 0 THEN delayed_enable_r
    ELSE IF samples_pretrigger = 1 THEN synced_enable
    ELSE pretrigger_fifo.r_data.en

(***************************************************************************)
(* Combinational outputs of the capture FSM.                               *)
(***************************************************************************)
\* Mutant of enabled: the enable gate has the wrong polarity.
enabled_Inverted == IF with_enable THEN 1 - delayed_enable ELSE 1

enabled == IF with_enable THEN delayed_enable ELSE 1

sampling == IF fsm = "CAPTURE" THEN enabled ELSE 0

\* Mutant of capturing: the flag follows the write enable.
capturing_WhileSampling == sampling

capturing == IF fsm = "CAPTURE" THEN 1 ELSE 0

\* Mutant of captured_sample: the read port is blanked while the FSM is in
\* CAPTURE.
captured_sample_Blanked(captured_sample_number) ==
    IF fsm = "CAPTURE" THEN 0 ELSE mem[captured_sample_number]

\* The read port is combinational: captured_sample for an address.
captured_sample(captured_sample_number) == mem[captured_sample_number]

\* write_position is Signal(range(0, sample_depth)): it wraps at its width.
WritePositionWidth == BitsFor(sample_depth - 1)

\* Mutant of IlaFsm: the trigger does not reset the write cursor.
IlaFsm_NoCursorReset(state, wp, comp, trigger, samp) ==
    IF state = "IDLE"
    THEN IF trigger = 1
         THEN [fsm |-> "CAPTURE", write_position |-> wp, complete |-> 0]
         ELSE [fsm |-> "IDLE", write_position |-> wp, complete |-> comp]
    ELSE IF samp = 1
         THEN [fsm |-> IF wp = sample_depth - 1 THEN "IDLE" ELSE "CAPTURE",
               write_position |-> (wp + 1) % Pow2(WritePositionWidth),
               complete |-> IF wp = sample_depth - 1 THEN 1 ELSE comp]
         ELSE [fsm |-> "CAPTURE", write_position |-> wp, complete |-> comp]

\* Mutant of IlaFsm: the trigger does not clear complete.
IlaFsm_KeepComplete(state, wp, comp, trigger, samp) ==
    IF state = "IDLE"
    THEN IF trigger = 1
         THEN [fsm |-> "CAPTURE", write_position |-> 0, complete |-> comp]
         ELSE [fsm |-> "IDLE", write_position |-> wp, complete |-> comp]
    ELSE IF samp = 1
         THEN [fsm |-> IF wp = sample_depth - 1 THEN "IDLE" ELSE "CAPTURE",
               write_position |-> (wp + 1) % Pow2(WritePositionWidth),
               complete |-> IF wp = sample_depth - 1 THEN 1 ELSE comp]
         ELSE [fsm |-> "CAPTURE", write_position |-> wp, complete |-> comp]

\* Mutant of IlaFsm: the trigger is looked at in CAPTURE too and restarts
\* the session.
IlaFsm_Retrigger(state, wp, comp, trigger, samp) ==
    IF trigger = 1
    THEN [fsm |-> "CAPTURE", write_position |-> 0, complete |-> 0]
    ELSE IF state = "IDLE"
         THEN [fsm |-> "IDLE", write_position |-> wp, complete |-> comp]
         ELSE IF samp = 1
              THEN [fsm |-> IF wp = sample_depth - 1 THEN "IDLE" ELSE "CAPTURE",
                    write_position |-> (wp + 1) % Pow2(WritePositionWidth),
                    complete |-> IF wp = sample_depth - 1 THEN 1 ELSE comp]
              ELSE [fsm |-> "CAPTURE", write_position |-> wp, complete |-> comp]

\* Mutant of IlaFsm: the last sample is recognised at write_position =
\* sample_depth instead of sample_depth - 1.
IlaFsm_OffByOne(state, wp, comp, trigger, samp) ==
    IF state = "IDLE"
    THEN IF trigger = 1
         THEN [fsm |-> "CAPTURE", write_position |-> 0, complete |-> 0]
         ELSE [fsm |-> "IDLE", write_position |-> wp, complete |-> comp]
    ELSE IF samp = 1
         THEN [fsm |-> IF wp = sample_depth THEN "IDLE" ELSE "CAPTURE",
               write_position |-> (wp + 1) % Pow2(WritePositionWidth),
               complete |-> IF wp = sample_depth THEN 1 ELSE comp]
         ELSE [fsm |-> "CAPTURE", write_position |-> wp, complete |-> comp]

(***************************************************************************)
(* The registers the FSM "ila_fsm" drives, after one clock edge.           *)
(***************************************************************************)
IlaFsm(state, wp, comp, trigger, samp) ==
    IF state = "IDLE"
    THEN IF trigger = 1
         THEN [fsm |-> "CAPTURE", write_position |-> 0, complete |-> 0]
         ELSE [fsm |-> "IDLE", write_position |-> wp, complete |-> comp]
    ELSE IF samp = 1
         THEN IF wp = sample_depth - 1
              THEN [fsm |-> "IDLE",
                    write_position |-> (wp + 1) % Pow2(WritePositionWidth),
                    complete |-> 1]
              ELSE [fsm |-> "CAPTURE",
                    write_position |-> (wp + 1) % Pow2(WritePositionWidth),
                    complete |-> comp]
         ELSE [fsm |-> "CAPTURE", write_position |-> wp, complete |-> comp]

\* The address the write port sees: write_position cut to the address width.
WriteAddress(wp) == wp % Pow2(AddrBits(sample_depth))

\* Mutant of WritePort: the write enable is not connected, every edge writes.
WritePort_AlwaysEnabled(m, en, wp, data) ==
    IF WriteAddress(wp) < sample_depth
    THEN [m EXCEPT ![WriteAddress(wp)] = data.v]
    ELSE m

\* The write port: en = sampling, addr = write_position, data = delayed_inputs.
\* A write to an address beyond the memory's depth stores nothing.
WritePort(m, en, wp, data) ==
    IF en = 1 /\ WriteAddress(wp) < sample_depth
    THEN [m EXCEPT ![WriteAddress(wp)] = data.v]
    ELSE m

\* FSM registers and buffer after an edge on which trigger is sampled.
EngineStep(trigger) ==
    LET r == IlaFsm(fsm, write_position, complete, trigger, sampling)
    IN  [ fsm |-> r.fsm, write_position |-> r.write_position,
          complete |-> r.complete,
          mem |-> WritePort(mem, sampling, write_position, delayed_inputs) ]

(***************************************************************************)
(* Initial state: the registers' reset values, for every configuration.    *)
(* The buffer has no initial contents in the source: Memory resets to 0.   *)
(***************************************************************************)
\* Reset values of the registers IntegratedLogicAnalyzer.elaborate declares
\* and of its observers.
EngineReset ==
    /\ fsm = "IDLE"
    /\ write_position = 0
    /\ complete = 0
    /\ mem = [a \in 0..(sample_depth - 1) |-> 0]
    /\ delayed_inputs_r = ResetDatum
    /\ delayed_enable_r = 0
    /\ synced_inputs_ff = << ResetDatum, ResetDatum >>
    /\ synced_enable_ff = << 0, 0 >>
    /\ pretrigger_fill_counter = 0
    /\ pretrigger_fifo = EmptyFifo
    /\ session_writes = << >>
    /\ armed = FALSE
    /\ stray_write = FALSE
    /\ wrote_disabled = FALSE
    /\ trigger_in_capture = FALSE
    /\ ticks = 0
    /\ hist = << >>
    /\ held = TRUE
    /\ trig_hist = << >>
    /\ trig_enable = 0
    /\ trig_primed = FALSE
    /\ trig_held = FALSE
    /\ post = << >>
    /\ last_written = [a \in 0..(sample_depth - 1) |-> 0]

(***************************************************************************)
(* AsyncFIFOBuffered(depth = 16, w_domain = "sync", r_domain = o_domain):  *)
(* an AsyncFIFO of FifoDepth slots and one output register.                *)
(*   storage   the words written, oldest first, the last FifoDepth of them *)
(*             (a slot never written holds the reset word)                 *)
(*   level     how many of them the reader has not taken out of storage    *)
(*   produce   the two stages of the synchronizer that carries the write   *)
(*             pointer into the read domain, each as the number of words   *)
(*             not yet taken that the stage knows of                       *)
(*   consume   the two stages of the synchronizer that carries the read    *)
(*             pointer into the write domain, each as the number of words  *)
(*             taken that the stage does not know of yet (consume[1] has   *)
(*             not entered the synchronizer, consume[2] is in its first    *)
(*             stage)                                                      *)
(*   port      the register of the storage's synchronous read port         *)
(*   r_data, r_rdy  the output register and its valid flag                 *)
(***************************************************************************)
FifoDepth == 16

ResetWord == [first |-> 0, payload |-> 0, last |-> 0]

EmptyCdc ==
    [ storage |-> << >>, level |-> 0, produce |-> << 0, 0 >>,
      consume |-> << 0, 0 >>, port |-> ResetWord,
      r_data |-> ResetWord, r_rdy |-> 0 ]

\* w_rdy: the writer does not see FifoDepth words in the storage.
cdc_w_rdy ==
    IF cdc.level + cdc.consume[1] + cdc.consume[2] < FifoDepth THEN 1 ELSE 0

\* One edge of the write clock with the given w_en and w_data.
CdcWriteEdge(f, w_en, w_data) ==
    LET do_write == w_en = 1 /\ cdc_w_rdy = 1
        kept     == IF Len(f.storage) = FifoDepth THEN Tail(f.storage)
                    ELSE f.storage
    IN  [ f EXCEPT
            !.storage = IF do_write THEN Append(kept, w_data) ELSE @,
            !.level   = IF do_write THEN @ + 1 ELSE @,
            !.consume = << 0, f.consume[1] >> ]

\* The slot the read pointer is at when n words have not been taken: the
\* oldest of them, or with none the slot written FifoDepth words ago.
CdcSlot(f, n) ==
    IF n > 0 THEN f.storage[Len(f.storage) - n + 1]
    ELSE IF Len(f.storage) = FifoDepth THEN f.storage[1]
    ELSE ResetWord

\* One edge of the read clock with the given r_en.
CdcReadEdge(f, r_en) ==
    LET load     == r_en = 1 \/ f.r_rdy = 0
        inner_ok == f.produce[2] > 0
        take     == IF load /\ inner_ok THEN 1 ELSE 0
    IN  [ f EXCEPT
            !.level   = @ - take,
            !.produce = << f.level - take, f.produce[1] - take >>,
            !.consume = << @[1] + take, @[2] >>,
            !.port    = CdcSlot(f, f.level - take),
            !.r_data  = IF load THEN f.port ELSE @,
            !.r_rdy   = IF load THEN (IF inner_ok THEN 1 ELSE 0) ELSE @ ]

\* Reset values of the registers StreamILA.elaborate declares.
StreamReset ==
    /\ send_fsm = "IDLE"
    /\ current_sample_number = 0
    /\ first = 0
    /\ cdc = EmptyCdc
    /\ triggers = 0
    /\ burst = << >>
    /\ out_words = << >>
    /\ blocked = FALSE

\* The state of the host frontend.
frontend_vars ==
    << signals, values, port, samples, parsed,
       refreshes, port_reads, read_length, failed, installed,
       word_size, enumerations, enumerated, vcd, vcd_header, gtkw,
       files, written, display_result >>

\* What enumerate_samples, emit_vcd and interactive_display produce, and the
\* word size of a wrapper.
output_vars ==
    << word_size, enumerations, enumerated, vcd, vcd_header, gtkw,
       files, written, display_result >>

\* The configuration and the registers of IntegratedLogicAnalyzer.
ila_vars ==
    << sample_depth, samples_pretrigger, with_enable, stimulus,
       fsm, write_position, complete, mem,
       delayed_inputs_r, delayed_enable_r,
       synced_inputs_ff, synced_enable_ff,
       pretrigger_fill_counter, pretrigger_fifo >>

\* No wrapper has computed its word size.
NoWord == [kind |-> "none", bits |-> 0, bytes |-> 0]

\* ILAFrontend.__init__: nothing is cached (None, held as the empty list;
\* installed tells whether refresh has assigned the cache), nothing has
\* been read or decoded.
FrontendReset ==
    /\ samples = << >>
    /\ parsed = << >>
    /\ refreshes = 0
    /\ port_reads = 0
    /\ read_length = 0
    /\ failed = FALSE
    /\ installed = FALSE
    /\ word_size = NoWord
    /\ enumerations = 0
    /\ enumerated = << >>
    /\ vcd = << >>
    /\ vcd_header = << >>
    /\ gtkw = << >>
    /\ files = {}
    /\ written = {}
    /\ display_result = "none"

\* No host is attached.
NoFrontend ==
    /\ signals = << >>
    /\ values = << >>
    /\ port = << >>
    /\ FrontendReset

\* Reset values of the registers SyncSerialILA.elaborate declares and of
\* the word shifter.
SpiReset ==
    /\ spi_cs_past = 0
    /\ spi_current_sample_number = 0
    /\ spi_captured_sample_number = 0
    /\ spi_current_tx = 0
    /\ spi_word_accepted = 0
    /\ spi_gap = 0
    /\ spi_settled = 0
    /\ spi_shifted = << >>
    /\ spi_after_complete = FALSE
    /\ spi_after_settled = FALSE

\* No SyncSerialILA is built: the constructor's default.
NoSpi ==
    /\ cs_idles_high = FALSE
    /\ SpiReset

\* The bare IntegratedLogicAnalyzer, every configuration.
Init ==
    /\ sample_depth \in 1..MaxDepth
    /\ samples_pretrigger \in 0..MaxPretrigger
    /\ with_enable \in BOOLEAN
    /\ stimulus \in {"steady", "varying"}
    /\ stimulus = "varying" => samples_pretrigger + sample_depth <= MaxVarying
    /\ EngineReset
    /\ o_domain = "sync"
    /\ StreamReset
    /\ NoSpi
    /\ NoFrontend

\* The enable input exists only with with_enable; without it the FSM uses 1.
EnableLevels == IF with_enable THEN Bit ELSE {1}

\* The words the environment may present on an edge.
Words == IF stimulus = "steady" THEN {0} ELSE Samples

(***************************************************************************)
(* The pretrigger pipeline after an edge on which the bundle carries the   *)
(* word `inputs` and the enable input is `enable`.                         *)
(***************************************************************************)
Pipeline(enable, inputs) ==
    LET d == Datum(inputs, enable)
    IN  /\ IF samples_pretrigger = 0
           THEN /\ delayed_inputs_r' = d
                /\ delayed_enable_r' = IF with_enable THEN enable ELSE delayed_enable_r
                /\ UNCHANGED << synced_inputs_ff, synced_enable_ff >>
           ELSE /\ synced_inputs_ff' = FFSynchronizer(synced_inputs_ff, d)
                /\ synced_enable_ff' = IF with_enable
                                        THEN FFSynchronizer(synced_enable_ff, enable)
                                        ELSE synced_enable_ff
                /\ UNCHANGED << delayed_inputs_r, delayed_enable_r >>
        /\ IF samples_pretrigger >= 2
           THEN /\ pretrigger_fill_counter' =
                       IF synced_enable = 1 /\ pretrigger_filled = 0
                       THEN pretrigger_fill_counter + 1
                       ELSE pretrigger_fill_counter
                /\ pretrigger_fifo' =
                       SyncFIFOBuffered(pretrigger_fifo,
                           IF pretrigger_filled = 1 THEN 1 ELSE synced_enable,
                           Entry(synced_inputs, synced_enable),
                           pretrigger_filled)
           ELSE UNCHANGED << pretrigger_fill_counter, pretrigger_fifo >>

(***************************************************************************)
(* What the observers record on the same edge.                             *)
(*   session_writes  the addresses written since the last accepted trigger *)
(*                   (the first sample_depth + 1 of them)                  *)
(*   armed           a trigger has been accepted                           *)
(*   stray_write     a write happened in IDLE                              *)
(*   wrote_disabled  a word sampled with enable low was written            *)
(*   trigger_in_capture  a trigger strobe arrived during this CAPTURE      *)
(*   ticks           edges since reset, counted up to samples_pretrigger+2 *)
(*   hist            the words of the last samples_pretrigger edges,       *)
(*                   newest first, each with the enable of its edge        *)
(*   held            enable was high on every edge since reset             *)
(*   last_written    per buffer address, the data the write port carried   *)
(*                   on the last edge it was enabled at that address (the  *)
(*                   memory's reset content before the first such edge)    *)
(* and, frozen at the accepted trigger (edge t):                           *)
(*   trig_primed     t >= samples_pretrigger, so edge t - P exists         *)
(*   trig_held       t >= samples_pretrigger + 2 and enable was high on    *)
(*                   every edge up to and including t                      *)
(*   trig_enable     the enable of edge t - samples_pretrigger             *)
(*   trig_hist       the words of edges t - P .. t, oldest first, cut to   *)
(*                   the first sample_depth of them                        *)
(*   post            from edge t on while in CAPTURE: the words of the     *)
(*                   edges whose enable was high, oldest first, as many as *)
(*                   the buffer has room for after P earlier words.        *)
(***************************************************************************)
Reverse(w) == [i \in 1..Len(w) |-> w[Len(w) + 1 - i]]

Window(w) == SubSeq(w, 1, Min(Len(w), sample_depth))

PostLen ==
    IF sample_depth > samples_pretrigger
    THEN sample_depth - samples_pretrigger
    ELSE 0

Observe(trigger, enable, inputs) ==
    LET accepted == fsm = "IDLE" /\ trigger = 1
        d        == Datum(inputs, enable)
        now      == << d >> \o hist
        primed   == Len(hist) = samples_pretrigger
    IN  /\ session_writes' = IF accepted THEN << >>
                             ELSE IF sampling = 1 /\ Len(session_writes) <= sample_depth
                                  THEN Append(session_writes, WriteAddress(write_position))
                                  ELSE session_writes
        /\ armed' = (armed \/ accepted)
        /\ stray_write' = (stray_write \/ (fsm = "IDLE" /\ sampling = 1))
        /\ wrote_disabled' = (wrote_disabled \/ (sampling = 1 /\ delayed_inputs.e = 0))
        /\ trigger_in_capture' = (fsm = "CAPTURE" /\ EngineStep(trigger).fsm = "CAPTURE"
                                  /\ (trigger_in_capture \/ trigger = 1))
        /\ ticks' = Min(ticks + 1, samples_pretrigger + 2)
        /\ hist' = SubSeq(now, 1, Min(Len(now), samples_pretrigger))
        /\ held' = (held /\ enable = 1)
        /\ last_written' =
              IF sampling = 1 /\ write_position \in DOMAIN last_written
              THEN [last_written EXCEPT ![write_position] = delayed_inputs.v]
              ELSE last_written
        /\ trig_primed' = IF accepted THEN primed ELSE trig_primed
        /\ trig_held' = IF accepted
                        THEN (held /\ enable = 1 /\ ticks = samples_pretrigger + 2)
                        ELSE trig_held
        /\ trig_enable' = IF accepted
                          THEN (IF primed THEN now[Len(now)].e ELSE 0)
                          ELSE trig_enable
        /\ trig_hist' = IF accepted
                        THEN (IF primed
                              THEN Window([i \in 1..Len(now) |-> Reverse(now)[i].v])
                              ELSE << >>)
                        ELSE trig_hist
        /\ post' = IF accepted
                   THEN (IF enable = 1 /\ PostLen > 0 THEN << inputs >> ELSE << >>)
                   ELSE IF fsm = "CAPTURE" /\ enable = 1 /\ Len(post) < PostLen
                        THEN Append(post, inputs)
                        ELSE post

(***************************************************************************)
(* One clock edge of IntegratedLogicAnalyzer.  The readback address is an  *)
(* input of the combinational read port only and changes no register.      *)
(***************************************************************************)
ClockEdge(trigger, enable, inputs) ==
    LET e == EngineStep(trigger)
    IN  /\ fsm' = e.fsm
        /\ write_position' = e.write_position
        /\ complete' = e.complete
        /\ mem' = e.mem
        /\ Pipeline(enable, inputs)
        /\ Observe(trigger, enable, inputs)
        /\ UNCHANGED << sample_depth, samples_pretrigger, with_enable, stimulus >>
        /\ UNCHANGED stream_vars
        /\ UNCHANGED spi_vars
        /\ UNCHANGED frontend_vars

\* IDLE, no trigger strobe.
Idle ==
    /\ fsm = "IDLE"
    /\ \E enable \in EnableLevels, inputs \in Words :
          ClockEdge(0, enable, inputs)

\* IDLE, trigger strobe: the trigger is accepted.
Arm ==
    /\ fsm = "IDLE"
    /\ \E enable \in EnableLevels, inputs \in Words :
          ClockEdge(1, enable, inputs)

\* CAPTURE, sampling low: nothing is written.
CaptureHold ==
    /\ fsm = "CAPTURE"
    /\ sampling = 0
    /\ \E trigger \in Bit, enable \in EnableLevels, inputs \in Words :
          ClockEdge(trigger, enable, inputs)

\* CAPTURE, sampling high, not the last address.
CaptureWrite ==
    /\ fsm = "CAPTURE"
    /\ sampling = 1
    /\ write_position # sample_depth - 1
    /\ \E trigger \in Bit, enable \in EnableLevels, inputs \in Words :
          ClockEdge(trigger, enable, inputs)

\* CAPTURE, sampling high, the last address: complete, back to IDLE.
CaptureFinish ==
    /\ fsm = "CAPTURE"
    /\ sampling = 1
    /\ write_position = sample_depth - 1
    /\ \E trigger \in Bit, enable \in EnableLevels, inputs \in Words :
          ClockEdge(trigger, enable, inputs)

Next == Idle \/ Arm \/ CaptureHold \/ CaptureWrite \/ CaptureFinish

Spec == Init /\ [][Next]_vars

\* The clock never stops.
FairSpec == Init /\ [][Next]_vars /\ WF_vars(Next)

(***************************************************************************)
(* Properties.                                                             *)
(***************************************************************************)
Completed == fsm = "IDLE" /\ complete = 1

\* C1: in each capture session exactly sample_depth buffer writes occur, to
\* the addresses 0, 1, ..., sample_depth - 1 in that order, each once, and
\* no buffer write occurs outside a session.
C1_SessionWrites ==
    /\ ~stray_write
    /\ session_writes = [i \in 1..Len(session_writes) |-> i - 1]
    /\ fsm = "CAPTURE" =>
          /\ Len(session_writes) = write_position
          /\ Len(session_writes) < sample_depth
    /\ (fsm = "IDLE" /\ armed) => Len(session_writes) = sample_depth
    /\ ~armed => session_writes = << >>

C1_Witness ==
    /\ Completed
    /\ sample_depth = 3
    /\ samples_pretrigger >= 2
    /\ session_writes = << 0, 1, 2 >>

\* C2: complete changes only when a trigger is accepted in IDLE (cleared)
\* and on the write made while write_position = sample_depth - 1 (set);
\* every accepted trigger clears it and every such write sets it; it is
\* never 1 in CAPTURE, and sampling is 0 in IDLE.
C2_CompleteChanges ==
    [][ /\ complete' # complete =>
             \/ fsm = "IDLE" /\ fsm' = "CAPTURE" /\ complete' = 0
             \/ /\ fsm = "CAPTURE" /\ sampling = 1
                /\ write_position = sample_depth - 1
                /\ complete' = 1
        /\ (fsm = "IDLE" /\ fsm' = "CAPTURE") => complete' = 0
        /\ (fsm = "CAPTURE" /\ sampling = 1 /\ write_position = sample_depth - 1)
              => (complete' = 1 /\ fsm' = "IDLE")
        /\ fsm = "CAPTURE" => complete = 0
        /\ fsm = "IDLE" => sampling = 0
        /\ (Completed /\ fsm' = "IDLE") => complete' = 1 ]_vars

C2_Witness ==
    /\ Completed
    /\ sample_depth > 1
    /\ ticks = samples_pretrigger + 2

\* C3: 0 <= write_position < sample_depth in every reachable state.
C3_CursorInRange == 0 <= write_position /\ write_position < sample_depth

\* C4: a trigger strobe in CAPTURE changes nothing: the write cursor,
\* complete, the FSM state and the buffer after the edge are what they are
\* after the same edge without the strobe.
C4_TriggerIgnoredInCapture ==
    fsm = "CAPTURE" => EngineStep(1) = EngineStep(0)

C4_Witness ==
    /\ trigger_in_capture
    /\ fsm = "CAPTURE"
    /\ write_position > 0

\* C5: with an enable input, no word sampled with enable low is ever
\* written, and a CAPTURE edge whose delayed enable is 0 leaves the write
\* cursor, complete and the buffer unchanged and the FSM in CAPTURE.
C5_EnableGating ==
    with_enable =>
        /\ ~wrote_disabled
        /\ (fsm = "CAPTURE" /\ delayed_enable = 0) =>
              \A trigger \in Bit :
                 EngineStep(trigger) =
                    [ fsm |-> "CAPTURE", write_position |-> write_position,
                      complete |-> complete, mem |-> mem ]

C5_Witness ==
    /\ with_enable
    /\ samples_pretrigger >= 2
    /\ fsm = "CAPTURE"
    /\ delayed_enable = 0
    /\ write_position > 0

C7_PretriggerWordFirst ==
    (samples_pretrigger >= 1 /\ Completed /\ trig_primed)
        => mem[0] = trig_hist[1]

\* C8: without pretrigger samples and with an enable input, the completed
\* buffer holds, in order and without gaps, the first sample_depth words
\* from the trigger edge on whose enable was high.
C8_Compaction ==
    (samples_pretrigger = 0 /\ with_enable /\ Completed) =>
        /\ Len(post) = sample_depth
        /\ \A a \in 0..(sample_depth - 1) : mem[a] = post[a + 1]

C8_Witness ==
    /\ samples_pretrigger = 0
    /\ with_enable
    /\ Completed
    /\ trig_enable = 0
    /\ sample_depth = 3
    /\ post = << 1, 0, 1 >>

\* The buffer of a capture whose pretrigger window was all enabled: the
\* words of the P edges before the trigger, then the enabled words from the
\* trigger edge on.
ExpectedBuffer ==
    SubSeq(trig_hist, 1, Min(samples_pretrigger, Len(trig_hist))) \o post

\* C9: with samples_pretrigger = P >= 2 and enable high from reset until
\* the trigger, at least P + 2 edges, the completed buffer holds the P words
\* before the trigger at 0..P-1, the trigger word at P and the following
\* enabled words after it.
C9_PretriggerLayout ==
    (samples_pretrigger >= 2 /\ with_enable /\ trig_held /\ Completed) =>
        \A a \in 0..(sample_depth - 1) :
            a < Len(ExpectedBuffer) => mem[a] = ExpectedBuffer[a + 1]

\* The enable most recently sampled (1 where there is no enable input).
last_enable ==
    IF ~with_enable THEN 1
    ELSE IF samples_pretrigger = 0 THEN delayed_enable_r
    ELSE synced_enable_ff[1]

\* C10 as claimed: every capture completes, whatever the enable input does.
C10_AlwaysCompletes == (fsm = "CAPTURE") ~> Completed

\* C10 amended: every capture completes in every execution in which the
\* enable input, if there is one, is high again and again.
C10_CompletesIfEnabled ==
    ([]<>(last_enable = 1)) => ((fsm = "CAPTURE") ~> Completed)

C10_Witness ==
    /\ with_enable
    /\ samples_pretrigger >= 2
    /\ Completed
    /\ ~held

\* The read port's address is Signal(range(0, sample_depth)): the addresses
\* it can carry that are inside the buffer.
ReadAddresses == 0..(sample_depth - 1)

\* C11: in every state, IDLE or CAPTURE, before or after completion, and
\* for every in-range address, captured_sample is the value most recently
\* written to that address: the reset content or the previous session's
\* word where the current session has not written yet.
C11_ReadbackIndependence ==
    \A a \in ReadAddresses : captured_sample(a) = last_written[a]

C11_Witness ==
    /\ fsm = "CAPTURE"
    /\ sample_depth = 3
    /\ session_writes = << 0 >>
    /\ captured_sample(0) = 0
    /\ captured_sample(1) = 1
    /\ captured_sample(2) = 1

(***************************************************************************)
(* StreamILA: the engine plus a send FSM that streams the buffer out after *)
(* every capture.  One step is one edge of the "sync" clock; trigger,      *)
(* enable, the bundle and the consumer's ready are inputs of the edge.     *)
(***************************************************************************)
\* current_sample_number is Signal(range(0, sample_depth)).
IndexWidth == BitsFor(sample_depth - 1)

\* A word of the stream: the first marker, the payload, the last marker.
StreamWord(f, p, l) == [first |-> f, payload |-> p, last |-> l]

\* What the read port can return for captured_sample_number = n: the port
\* sees n cut to the address width; the buffer word, or any word for an
\* address beyond the buffer's depth.
ReadPort(n) ==
    LET addr == n % Pow2(AddrBits(sample_depth))
    IN  IF addr \in ReadAddresses THEN {captured_sample(addr)} ELSE Samples

\* Mutant of ila_trigger: the external trigger is wired to the engine in
\* every state of the send FSM.
ila_trigger_Always(trigger) == trigger

\* ila.trigger: the external trigger is forwarded in IDLE only.
ila_trigger(trigger) == IF send_fsm = "IDLE" THEN trigger ELSE 0

\* in_domain_stream.valid and in_domain_stream.last.
in_domain_valid == IF send_fsm = "SENDING" THEN 1 ELSE 0

in_domain_last ==
    IF send_fsm = "SENDING" /\ current_sample_number = sample_depth - 1
    THEN 1 ELSE 0

\* self.stream.last and in_domain_stream.ready for the consumer's ready.
stream_last == IF o_domain = "sync" THEN in_domain_last ELSE cdc.r_data.last

in_domain_ready(ready) == IF o_domain = "sync" THEN ready ELSE cdc_w_rdy

\* Mutant of StreamFsm: IDLE is left for SAMPLING whether or not the trigger
\* is high.
StreamFsm_FreeRunning(state, n, f, trigger, comp, ready, last) ==
    IF state = "IDLE"
    THEN [send_fsm |-> "SAMPLING", current_sample_number |-> n, first |-> f]
    ELSE IF state = "SAMPLING"
    THEN IF comp = 1
         THEN [send_fsm |-> "SENDING", current_sample_number |-> 0, first |-> 1]
         ELSE [send_fsm |-> "SAMPLING", current_sample_number |-> n, first |-> f]
    ELSE IF ready = 1
         THEN [send_fsm |-> IF last = 1 THEN "IDLE" ELSE "SENDING",
               current_sample_number |-> (n + 1) % Pow2(IndexWidth),
               first |-> 0]
         ELSE [send_fsm |-> "SENDING", current_sample_number |-> n, first |-> f]

\* Mutant of StreamFsm: SENDING is left one word late.
StreamFsm_LateExit(state, n, f, trigger, comp, ready, last) ==
    IF state = "IDLE"
    THEN [send_fsm |-> IF trigger = 1 THEN "SAMPLING" ELSE "IDLE",
          current_sample_number |-> n, first |-> f]
    ELSE IF state = "SAMPLING"
    THEN IF comp = 1
         THEN [send_fsm |-> "SENDING", current_sample_number |-> 0, first |-> 1]
         ELSE [send_fsm |-> "SAMPLING", current_sample_number |-> n, first |-> f]
    ELSE IF ready = 1
         THEN [send_fsm |-> IF n = sample_depth THEN "IDLE" ELSE "SENDING",
               current_sample_number |-> (n + 1) % Pow2(IndexWidth),
               first |-> 0]
         ELSE [send_fsm |-> "SENDING", current_sample_number |-> n, first |-> f]

\* Mutant of StreamFsm: in SENDING the index advances and first is cleared
\* on every tick, whether or not the word is accepted.
StreamFsm_IgnoreReady(state, n, f, trigger, comp, ready, last) ==
    IF state = "IDLE"
    THEN [send_fsm |-> IF trigger = 1 THEN "SAMPLING" ELSE "IDLE",
          current_sample_number |-> n, first |-> f]
    ELSE IF state = "SAMPLING"
    THEN IF comp = 1
         THEN [send_fsm |-> "SENDING", current_sample_number |-> 0, first |-> 1]
         ELSE [send_fsm |-> "SAMPLING", current_sample_number |-> n, first |-> f]
    ELSE [send_fsm |-> IF ready = 1 /\ last = 1 THEN "IDLE" ELSE "SENDING",
          current_sample_number |-> (n + 1) % Pow2(IndexWidth),
          first |-> 0]

\* The registers the send FSM drives, after one clock edge.
StreamFsm(state, n, f, trigger, comp, ready, last) ==
    IF state = "IDLE"
    THEN [send_fsm |-> IF trigger = 1 THEN "SAMPLING" ELSE "IDLE",
          current_sample_number |-> n, first |-> f]
    ELSE IF state = "SAMPLING"
    THEN IF comp = 1
         THEN [send_fsm |-> "SENDING", current_sample_number |-> 0, first |-> 1]
         ELSE [send_fsm |-> "SAMPLING", current_sample_number |-> n, first |-> f]
    ELSE IF ready = 1
         THEN [send_fsm |-> IF last = 1 THEN "IDLE" ELSE "SENDING",
               current_sample_number |-> (n + 1) % Pow2(IndexWidth),
               first |-> 0]
         ELSE [send_fsm |-> "SENDING", current_sample_number |-> n, first |-> f]

(***************************************************************************)
(* Observers of the stream.                                                *)
(*   triggers   the triggers the send FSM has accepted, counted up to      *)
(*              MaxBursts                                                  *)
(*   blocked    a trigger strobe has arrived outside IDLE since the last   *)
(*              accepted trigger                                           *)
(*   burst      the words accepted on self.stream since the last accepted  *)
(*              trigger, oldest first (the first sample_depth + 1 of them) *)
(***************************************************************************)
Accepted(log, word) ==
    IF Len(log) <= sample_depth THEN Append(log, word) ELSE log

\* One edge of the sync clock of StreamILA; payload is what the read port
\* returns for current_sample_number.
StreamEdge(trigger, enable, inputs, ready, payload) ==
    LET e    == EngineStep(ila_trigger(trigger))
        r    == StreamFsm(send_fsm, current_sample_number, first, trigger,
                          complete, in_domain_ready(ready), stream_last)
        word == StreamWord(first, payload, in_domain_last)
        fire == send_fsm = "IDLE" /\ trigger = 1
    IN  /\ fsm' = e.fsm
        /\ write_position' = e.write_position
        /\ complete' = e.complete
        /\ mem' = e.mem
        /\ Pipeline(enable, inputs)
        /\ send_fsm' = r.send_fsm
        /\ current_sample_number' = r.current_sample_number
        /\ first' = r.first
        /\ triggers' = IF fire THEN Min(triggers + 1, MaxBursts) ELSE triggers
        /\ blocked' = (~fire /\ (blocked \/ (send_fsm # "IDLE" /\ trigger = 1)))
        /\ burst' = IF fire THEN << >>
                    ELSE IF /\ o_domain = "sync"
                            /\ in_domain_valid = 1 /\ in_domain_ready(ready) = 1
                         THEN Accepted(burst, word)
                         ELSE burst
        /\ cdc' = IF o_domain = "sync" THEN cdc
                  ELSE CdcWriteEdge(cdc, in_domain_valid, word)
        /\ UNCHANGED << sample_depth, samples_pretrigger, with_enable,
                        stimulus, o_domain, out_words >>
        /\ UNCHANGED engine_observers
        /\ UNCHANGED spi_vars
        /\ UNCHANGED frontend_vars

\* IDLE, no trigger strobe.
StreamIdle ==
    /\ send_fsm = "IDLE"
    /\ \E enable \in EnableLevels, inputs \in Words, ready \in Bit,
          payload \in ReadPort(current_sample_number) :
          StreamEdge(0, enable, inputs, ready, payload)

\* IDLE, trigger strobe: on to SAMPLING, the engine is triggered.  With
\* the output in its own clock domain the environment raises the trigger
\* MaxBursts times at most.
StreamTrigger ==
    /\ send_fsm = "IDLE"
    /\ o_domain # "sync" => triggers < MaxBursts
    /\ \E enable \in EnableLevels, inputs \in Words, ready \in Bit,
          payload \in ReadPort(current_sample_number) :
          StreamEdge(1, enable, inputs, ready, payload)

\* SAMPLING, the engine has not completed.
StreamSampling ==
    /\ send_fsm = "SAMPLING"
    /\ complete = 0
    /\ \E trigger \in Bit, enable \in EnableLevels, inputs \in Words,
          ready \in Bit, payload \in ReadPort(current_sample_number) :
          StreamEdge(trigger, enable, inputs, ready, payload)

\* SAMPLING, the engine has completed: on to SENDING.
StreamStart ==
    /\ send_fsm = "SAMPLING"
    /\ complete = 1
    /\ \E trigger \in Bit, enable \in EnableLevels, inputs \in Words,
          ready \in Bit, payload \in ReadPort(current_sample_number) :
          StreamEdge(trigger, enable, inputs, ready, payload)

\* SENDING, the word is not accepted.
StreamStall ==
    /\ send_fsm = "SENDING"
    /\ \E trigger \in Bit, enable \in EnableLevels, inputs \in Words,
          ready \in Bit, payload \in ReadPort(current_sample_number) :
          /\ in_domain_ready(ready) = 0
          /\ StreamEdge(trigger, enable, inputs, ready, payload)

\* SENDING, the word is accepted and self.stream.last is low.
StreamSend ==
    /\ send_fsm = "SENDING"
    /\ stream_last = 0
    /\ \E trigger \in Bit, enable \in EnableLevels, inputs \in Words,
          ready \in Bit, payload \in ReadPort(current_sample_number) :
          /\ in_domain_ready(ready) = 1
          /\ StreamEdge(trigger, enable, inputs, ready, payload)

\* SENDING, the word is accepted and self.stream.last is high: back to IDLE.
StreamSendLast ==
    /\ send_fsm = "SENDING"
    /\ stream_last = 1
    /\ \E trigger \in Bit, enable \in EnableLevels, inputs \in Words,
          ready \in Bit, payload \in ReadPort(current_sample_number) :
          /\ in_domain_ready(ready) = 1
          /\ StreamEdge(trigger, enable, inputs, ready, payload)

\* StreamILA with o_domain = domain, every configuration of the engine.
StreamInit ==
    /\ sample_depth \in 1..MaxDepth
    /\ samples_pretrigger \in 0..MaxPretrigger
    /\ with_enable \in BOOLEAN
    /\ stimulus \in {"steady", "varying"}
    /\ stimulus = "varying" => samples_pretrigger + sample_depth <= MaxVarying
    /\ EngineReset
    /\ o_domain = "sync"
    /\ StreamReset
    /\ NoSpi
    /\ NoFrontend

StreamNext ==
    \/ StreamIdle \/ StreamTrigger \/ StreamSampling \/ StreamStart
    \/ StreamStall \/ StreamSend \/ StreamSendLast

StreamSpec == StreamInit /\ [][StreamNext]_vars

(***************************************************************************)
(* StreamILA with o_domain # domain.  The two clocks are unrelated: an     *)
(* edge of the sync clock and an edge of the output clock may come in any  *)
(* order.  On an output edge the consumer's ready is an input.             *)
(*   out_words  the words accepted on self.stream after the last accepted  *)
(*              word that was marked last (the first sample_depth + 1)     *)
(***************************************************************************)
OutputEdge ==
    /\ o_domain # "sync"
    /\ \E ready \in Bit :
          LET accept == cdc.r_rdy = 1 /\ ready = 1
              closed == out_words # << >> /\ out_words[Len(out_words)].last = 1
          IN  /\ cdc' = CdcReadEdge(cdc, ready)
              /\ out_words' = IF ~accept THEN out_words
                              ELSE IF closed THEN << cdc.r_data >>
                              ELSE Accepted(out_words, cdc.r_data)
    /\ UNCHANGED << sample_depth, samples_pretrigger, with_enable, stimulus,
                    fsm, write_position, complete, mem,
                    delayed_inputs_r, delayed_enable_r,
                    synced_inputs_ff, synced_enable_ff,
                    pretrigger_fill_counter, pretrigger_fifo,
                    o_domain, send_fsm, current_sample_number, first,
                    triggers, burst, blocked >>
    /\ UNCHANGED engine_observers
    /\ UNCHANGED spi_vars
    /\ UNCHANGED frontend_vars

\* StreamILA(o_domain = another domain, samples_pretrigger = 0,
\* with_enable = False), the bundle held steady.
StreamCdcInit ==
    /\ sample_depth \in 1..MaxCdcDepth
    /\ samples_pretrigger = 0
    /\ with_enable = FALSE
    /\ stimulus = "steady"
    /\ EngineReset
    /\ o_domain = "out"
    /\ StreamReset
    /\ NoSpi
    /\ NoFrontend

StreamCdcNext == StreamNext \/ OutputEdge

StreamCdcSpec == StreamCdcInit /\ [][StreamCdcNext]_vars

\* The i-th word (from 0) of the burst of the buffer as it is now.
BurstWord(i) ==
    StreamWord(IF i = 0 THEN 1 ELSE 0, mem[i],
               IF i = sample_depth - 1 THEN 1 ELSE 0)

\* C12: without domain crossing, SENDING is entered only from a completed
\* capture; the words accepted are word 0, 1, ... of the buffer in order,
\* first on word 0 only and last on word sample_depth - 1 only; the send FSM
\* is in SENDING exactly while fewer than sample_depth words have been
\* accepted and back in IDLE with exactly sample_depth of them.
C12_SameDomainBurst ==
    o_domain = "sync" =>
        /\ Len(burst) <= sample_depth
        /\ \A i \in 1..Len(burst) : burst[i] = BurstWord(i - 1)
        /\ send_fsm = "SAMPLING" => burst = << >>
        /\ send_fsm = "SENDING" =>
              /\ Completed
              /\ Len(burst) = current_sample_number
              /\ Len(burst) < sample_depth
              /\ first = (IF burst = << >> THEN 1 ELSE 0)
        /\ send_fsm = "IDLE" =>
              Len(burst) = (IF triggers > 0 THEN sample_depth ELSE 0)

C12_Witness ==
    /\ o_domain = "sync"
    /\ send_fsm = "IDLE"
    /\ sample_depth = 3
    /\ Len(burst) = 3
    /\ burst[1].payload = 1
    /\ burst[2].payload = 0
    /\ burst[3] = StreamWord(0, 1, 1)

\* C13: with an independent output domain, whatever the order of the edges
\* of the two clocks and whatever the consumer's ready, the words accepted
\* on the external stream form bursts of exactly sample_depth words, first
\* on the first word only and last on the last word only: nothing lost,
\* duplicated or appended.
C13_CrossingPreservesBurst ==
    o_domain # "sync" =>
        /\ Len(out_words) <= sample_depth
        /\ \A i \in 1..Len(out_words) :
              /\ out_words[i].first = (IF i = 1 THEN 1 ELSE 0)
              /\ out_words[i].last = (IF i = sample_depth THEN 1 ELSE 0)

\* StreamILA with and without clock-domain crossing.
StreamAnyInit == StreamInit \/ StreamCdcInit

StreamAnySpec == StreamAnyInit /\ [][StreamCdcNext]_vars

\* C14: the engine sees the external trigger in IDLE only: in SAMPLING and
\* SENDING the engine's registers and buffer after an edge are the same with
\* and without a trigger strobe, while in IDLE a strobe starts a capture.
\* Throughout SENDING the engine is IDLE with complete = 1 and the buffer's
\* write enable is low, so no address is written during a burst.
C14_TriggerOnlyInIdle ==
    /\ send_fsm = "IDLE" =>
          /\ fsm = "IDLE"
          /\ EngineStep(ila_trigger(1)).fsm = "CAPTURE"
          /\ EngineStep(ila_trigger(1)).complete = 0
    /\ send_fsm # "IDLE" =>
          EngineStep(ila_trigger(1)) = EngineStep(ila_trigger(0))
    /\ send_fsm = "SENDING" =>
          /\ Completed
          /\ sampling = 0
          /\ \A trigger \in Bit : EngineStep(ila_trigger(trigger)).mem = mem

C14_Witness ==
    /\ send_fsm = "SENDING"
    /\ blocked
    /\ sample_depth > 1
    /\ current_sample_number = sample_depth - 1

\* C15: one buffer per trigger.  No word is offered or delivered before a
\* trigger has been accepted, and the send FSM hands over no more than
\* sample_depth words per accepted trigger: to the consumer without a
\* domain crossing, to the crossing FIFO with one.
C15_OneBurstPerTrigger ==
    /\ triggers = 0 =>
          /\ in_domain_valid = 0
          /\ burst = << >>
          /\ out_words = << >>
          /\ cdc.storage = << >>
    /\ o_domain = "sync" => Len(burst) <= sample_depth
    /\ o_domain # "sync" => Len(cdc.storage) <= sample_depth * triggers

(***************************************************************************)
(* SyncSerialILA: the engine, read out word by word through an SPI word    *)
(* shifter.  One step is one edge of the "sync" clock; trigger, the bundle *)
(* and the bus's chip-select are inputs of the edge.  The trigger is the   *)
(* engine's own trigger.                                                   *)
(***************************************************************************)
\* transaction_start = Rose(self.spi.cs): cs is high and was low one tick ago.
transaction_start(cs) == IF cs = 1 /\ spi_cs_past = 0 THEN 1 ELSE 0

\* Mutant of SpiIndex: the start of a transaction sets the index to 0.
SpiIndex_StartAtZero(n, cs, start, accepted) ==
    IF cs = 1
    THEN IF start = 1 THEN 0
         ELSE IF accepted = 1 THEN (n + 1) % Pow2(IndexWidth)
         ELSE n
    ELSE 0

\* Mutant of SpiIndex: de-asserting chip-select holds the index instead of
\* resetting it.
SpiIndex_NoReset(n, cs, start, accepted) ==
    IF cs = 1
    THEN IF start = 1 THEN 1 % Pow2(IndexWidth)
         ELSE IF accepted = 1 THEN (n + 1) % Pow2(IndexWidth)
         ELSE n
    ELSE n

\* current_sample_number after an edge.
SpiIndex(n, cs, start, accepted) ==
    IF cs = 1
    THEN IF start = 1 THEN 1 % Pow2(IndexWidth)
         ELSE IF accepted = 1 THEN (n + 1) % Pow2(IndexWidth)
         ELSE n
    ELSE 0

\* interface.word_out = ila.captured_sample: what the read port can return
\* for the registered captured_sample_number.
word_out == ReadPort(spi_captured_sample_number)

\* The engine and the registers of SyncSerialILA.elaborate after an edge.
SpiRegisters(trigger, enable, inputs, cs) ==
    LET e == EngineStep(trigger)
    IN  /\ fsm' = e.fsm
        /\ write_position' = e.write_position
        /\ complete' = e.complete
        /\ mem' = e.mem
        /\ Pipeline(enable, inputs)
        /\ spi_cs_past' = cs
        /\ spi_current_sample_number' =
              SpiIndex(spi_current_sample_number, cs, transaction_start(cs),
                       spi_word_accepted)
        /\ spi_captured_sample_number' = spi_current_sample_number
        /\ UNCHANGED << sample_depth, samples_pretrigger, with_enable,
                        stimulus, cs_idles_high >>
        /\ UNCHANGED engine_observers
        /\ UNCHANGED stream_vars
        /\ UNCHANGED frontend_vars

\* SyncSerialILA(samples_pretrigger = 0, with_enable = False) with either
\* value of cs_idles_high, the bundle
\* driven freely.
SpiInit ==
    /\ sample_depth \in 1..MaxDepth
    /\ samples_pretrigger = 0
    /\ with_enable = FALSE
    /\ stimulus = "varying"
    /\ samples_pretrigger + sample_depth <= MaxVarying
    /\ EngineReset
    /\ o_domain = "sync"
    /\ StreamReset
    /\ cs_idles_high \in BOOLEAN
    /\ SpiReset
    /\ NoFrontend

(***************************************************************************)
(* The index registers alone: word_accepted is an output of the word       *)
(* shifter, here any strobe pattern at all.                                *)
(***************************************************************************)
\* An edge with chip-select de-asserted.
SpiIndexDeselected ==
    /\ \E trigger \in Bit, enable \in EnableLevels, inputs \in Words :
          SpiRegisters(trigger, enable, inputs, 0)
    /\ spi_word_accepted' \in Bit
    /\ UNCHANGED << spi_current_tx, spi_gap, spi_settled, spi_shifted,
                    spi_after_complete, spi_after_settled >>

\* An edge with chip-select asserted.
SpiIndexSelected ==
    /\ \E trigger \in Bit, enable \in EnableLevels, inputs \in Words :
          SpiRegisters(trigger, enable, inputs, 1)
    /\ spi_word_accepted' \in Bit
    /\ UNCHANGED << spi_current_tx, spi_gap, spi_settled, spi_shifted,
                    spi_after_complete, spi_after_settled >>

SpiIndexNext == SpiIndexDeselected \/ SpiIndexSelected

SpiIndexSpec == SpiInit /\ [][SpiIndexNext]_vars

\* The chip-select sampled on the edge just taken, and whether it rose.
cs_now == spi_cs_past'

cs_rose == spi_cs_past' = 1 /\ spi_cs_past = 0

\* C17 as claimed: the index register is 1 after the edge on which
\* chip-select rises, whatever word_accepted is; on a later edge with
\* chip-select asserted it is one more than before if word_accepted is high
\* and unchanged otherwise; after an edge with chip-select de-asserted it is
\* 0; the address register holds after every edge what the index register
\* held before it.
C17_IndexProtocol ==
    [][ /\ cs_rose => spi_current_sample_number' = 1
        /\ (cs_now = 1 /\ ~cs_rose /\ spi_word_accepted = 1) =>
              spi_current_sample_number' = spi_current_sample_number + 1
        /\ (cs_now = 1 /\ ~cs_rose /\ spi_word_accepted = 0) =>
              spi_current_sample_number' = spi_current_sample_number
        /\ cs_now = 0 => spi_current_sample_number' = 0
        /\ spi_captured_sample_number' = spi_current_sample_number ]_vars

\* C17 amended: as claimed, but the advance is by one modulo 2^w, w the
\* width of the index register: after the index 2^w - 1 comes 0.
C17_IndexProtocolModulo ==
    [][ /\ cs_rose => spi_current_sample_number' = 1
        /\ (cs_now = 1 /\ ~cs_rose /\ spi_word_accepted = 1) =>
              spi_current_sample_number' =
                 (spi_current_sample_number + 1) % Pow2(IndexWidth)
        /\ (cs_now = 1 /\ ~cs_rose /\ spi_word_accepted = 0) =>
              spi_current_sample_number' = spi_current_sample_number
        /\ cs_now = 0 => spi_current_sample_number' = 0
        /\ spi_captured_sample_number' = spi_current_sample_number ]_vars

C17_Witness ==
    /\ sample_depth = 3
    /\ spi_cs_past = 1
    /\ spi_captured_sample_number = 3
    /\ spi_current_sample_number = 0
    /\ spi_word_accepted = 1

(***************************************************************************)
(* SyncSerialILA with its word shifter (SPIDeviceInterface).  The shifter  *)
(* keeps loading word_out while chip-select is de-asserted, so the word it *)
(* holds when chip-select rises is the first word of the transaction; when *)
(* a word has been shifted out it loads word_out as the next word and      *)
(* strobes word_accepted for one tick.                                     *)
(*   spi_gap     ticks the shifter has held its word, up to MinWordTicks   *)
(*   spi_settled consecutive ticks, up to SettleTicks, with chip-select    *)
(*               de-asserted, the capture complete and no trigger          *)
(*   spi_shifted the words shifted out in full in this transaction, oldest *)
(*               first (the first sample_depth + 1 of them)                *)
(*   spi_after_complete  chip-select rose with the capture complete, and   *)
(*               no trigger has come since                                 *)
(*   spi_after_settled   the same, and chip-select rose after SettleTicks  *)
(*               such ticks                                                *)
(***************************************************************************)
\* Ticks from de-asserting chip-select until the shifter holds buffer[0]:
\* one each for current_sample_number, captured_sample_number and the
\* shifter's load.
SettleTicks == 3

\* The capture is complete and this edge brings no trigger: the buffer is
\* the same before and after the edge.
Quiet(trigger) == Completed /\ trigger = 0

\* An edge of SyncSerialILA with its shifter: tx and accepted are the
\* shifter's registers after the edge, done tells that a word has been
\* shifted out in full.
SpiEdge(trigger, enable, inputs, cs, tx, accepted, done) ==
    /\ SpiRegisters(trigger, enable, inputs, cs)
    /\ spi_current_tx' = tx
    /\ spi_word_accepted' = accepted
    /\ spi_gap' = IF cs = 0 \/ done THEN 0 ELSE Min(spi_gap + 1, MinWordTicks)
    /\ spi_settled' = IF cs = 0 /\ Quiet(trigger)
                      THEN Min(spi_settled + 1, SettleTicks) ELSE 0
    /\ spi_shifted' = IF cs = 0 \/ transaction_start(cs) = 1 THEN << >>
                      ELSE IF done THEN Accepted(spi_shifted, spi_current_tx)
                      ELSE spi_shifted
    /\ spi_after_complete' =
          IF cs = 0 THEN FALSE
          ELSE IF transaction_start(cs) = 1 THEN Quiet(trigger)
          ELSE spi_after_complete /\ Quiet(trigger)
    /\ spi_after_settled' =
          IF cs = 0 THEN FALSE
          ELSE IF transaction_start(cs) = 1
               THEN Quiet(trigger) /\ spi_settled = SettleTicks
          ELSE spi_after_settled /\ Quiet(trigger)

\* Chip-select de-asserted: the shifter loads word_out.
SpiDeselected ==
    \E trigger \in Bit, enable \in EnableLevels, inputs \in Words,
       tx \in word_out :
       SpiEdge(trigger, enable, inputs, 0, tx, 0, FALSE)

\* Chip-select asserted, the word is not shifted out yet.
SpiShift ==
    \E trigger \in Bit, enable \in EnableLevels, inputs \in Words :
       SpiEdge(trigger, enable, inputs, 1, spi_current_tx, 0, FALSE)

\* Chip-select asserted, the last bit of the word is shifted: the shifter
\* loads word_out and strobes word_accepted.
SpiWordDone ==
    /\ spi_cs_past = 1
    /\ spi_gap = MinWordTicks
    /\ \E trigger \in Bit, enable \in EnableLevels, inputs \in Words,
          tx \in word_out :
          SpiEdge(trigger, enable, inputs, 1, tx, 1, TRUE)

SpiNext == SpiDeselected \/ SpiShift \/ SpiWordDone

SpiSpec == SpiInit /\ [][SpiNext]_vars

\* The words shifted out so far are the buffer from address 0 on, as far as
\* the buffer goes, and with none shifted out the shifter holds buffer[0].
ReadoutInOrder ==
    /\ \A i \in 1..Min(Len(spi_shifted), sample_depth) :
          spi_shifted[i] = mem[i - 1]
    /\ spi_shifted = << >> => spi_current_tx = mem[0]

SignalNames == {"a", "b"}
SignalWidths == {1, 4, 8}

\* The ordered signal lists an ILA is built with.
SignalLists ==
    UNION { [1..n -> [name : SignalNames, width : SignalWidths]] :
            n \in 1..MaxSignals }

\* Values a signal of the given width is driven with.
SignalValues(width) == {0, 1, Pow2(width) - 1}

\* len(signal) summed over the first n signals: the offset of signal n + 1
\* within Cat(*signals).
RECURSIVE Offset(_, _)
Offset(sigs, n) ==
    IF n = 0 THEN 0 ELSE Offset(sigs, n - 1) + sigs[n].width

\* self.sample_width = len(self.inputs)
sample_width == Offset(signals, Len(signals))

\* Cat(*signals): the first signal occupies the least significant bits.
RECURSIVE Cat(_, _, _)
Cat(sigs, vals, n) ==
    IF n = 0 THEN 0
    ELSE Cat(sigs, vals, n - 1) + vals[n] * Pow2(Offset(sigs, n - 1))

\* int.bit_length()
RECURSIVE bit_length(_)
bit_length(n) == IF n = 0 THEN 0 ELSE 1 + bit_length(n \div 2)

\* Mutant of bits_per_sample: the width itself, not the width less one, is
\* measured.
bits_per_sample_NextPower == Pow2(bit_length(sample_width))

\* StreamILA.__init__: the word size of the stream and of the serial line.
bits_per_sample == Pow2(bit_length(sample_width - 1))
bytes_per_sample == bits_per_sample \div 8

\* The i-th byte the device puts on the line.
DeviceByte(i) == (i * 37) % 256

\* Serial.read(size): returns what arrived before the timeout, at most
\* size bytes, without raising.
PortRead(size) == SubSeq(port, 1, Min(size, Len(port)))

\* int.from_bytes(raw, byteorder='big')
RECURSIVE BigEndian(_)
BigEndian(raw) ==
    IF raw = << >> THEN 0
    ELSE 256 * BigEndian(SubSeq(raw, 1, Len(raw) - 1)) + raw[Len(raw)]

\* bits.from_bytes(raw_sample, length=sample_length, byteorder='big'): a
\* bit vector of the given length, held as its value.
from_bytes(raw, length) == BigEndian(raw) % Pow2(length)

\* range(0, len(all_samples), sample_width_bytes): one chunk per started
\* group of sample_width_bytes bytes, the last one possibly short.
Chunks(length, step) == (length + step - 1) \div step

\* AsyncSerialILAFrontend._split_samples, for a non-zero step.
_split_samples(all_samples) ==
    [k \in 1..Chunks(Len(all_samples), bytes_per_sample) |->
        from_bytes(SubSeq(all_samples,
                          (k - 1) * bytes_per_sample + 1,
                          Min(k * bytes_per_sample, Len(all_samples))),
                   sample_width)]

\* raw_sample[position : position + signal_width] of a bits value.
Slice(raw_sample, position, width) ==
    (raw_sample \div Pow2(position)) % Pow2(width)

\* The names of the signal list are pairwise distinct.
DistinctNames ==
    \A j, k \in 1..Len(signals) :
        signals[j].name = signals[k].name => j = k

\* The index of the signal whose slice the dictionary keeps under a name:
\* a later assignment to the same key replaces an earlier one.
LastNamed(sigs, name) ==
    CHOOSE k \in 1..Len(sigs) :
        /\ sigs[k].name = name
        /\ \A j \in (k + 1)..Len(sigs) : sigs[j].name # name

\* Variant: the dictionary keeps the slice taken at position zero under
\* every name.
_parse_sample_NoOffset(raw_sample) ==
    [name \in { signals[k].name : k \in 1..Len(signals) } |->
        Slice(raw_sample, 0, signals[LastNamed(signals, name)].width)]

\* ILAFrontend._parse_sample
_parse_sample(raw_sample) ==
    [name \in { signals[k].name : k \in 1..Len(signals) } |->
        Slice(raw_sample,
              Offset(signals, LastNamed(signals, name) - 1),
              signals[LastNamed(signals, name)].width)]

\* ILAFrontend._parse_samples
_parse_samples(raw_samples) ==
    [k \in 1..Len(raw_samples) |-> _parse_sample(raw_samples[k])]

\* ILAFrontend.refresh with AsyncSerialILAFrontend._read_samples: one read
\* of twice the trace size, then the split and the parse.  A zero
\* sample_width_bytes makes range() raise, and the cache keeps its value.
refresh ==
    LET total_to_read == sample_depth * bytes_per_sample
        all_samples == PortRead(2 * total_to_read)
    IN  /\ port' = SubSeq(port, Len(all_samples) + 1, Len(port))
        /\ port_reads' = port_reads + 1
        /\ read_length' = Len(all_samples)
        /\ refreshes' = refreshes + 1
        /\ IF bytes_per_sample = 0
           THEN /\ failed' = TRUE
                /\ installed' = FALSE
                /\ samples' = samples
           ELSE /\ failed' = FALSE
                /\ installed' = TRUE
                /\ samples' = _parse_samples(_split_samples(all_samples))

\* The host calls refresh().
Refresh ==
    /\ refreshes < MaxRefreshes
    /\ refresh
    /\ UNCHANGED << signals, values, parsed >>
    /\ UNCHANGED output_vars
    /\ UNCHANGED << sample_depth, samples_pretrigger, with_enable, stimulus,
                    fsm, write_position, complete, mem,
                    delayed_inputs_r, delayed_enable_r,
                    synced_inputs_ff, synced_enable_ff,
                    pretrigger_fill_counter, pretrigger_fifo >>
    /\ UNCHANGED engine_observers
    /\ UNCHANGED stream_vars
    /\ UNCHANGED spi_vars

\* One call of _parse_sample on the word the engine forms from the signals.
ParseWord ==
    /\ parsed = << >>
    /\ parsed' = << _parse_sample(Cat(signals, values, Len(signals))) >>
    /\ UNCHANGED << signals, values, port, samples, refreshes, port_reads,
                    read_length, failed, installed >>
    /\ UNCHANGED output_vars
    /\ UNCHANGED << sample_depth, samples_pretrigger, with_enable, stimulus,
                    fsm, write_position, complete, mem,
                    delayed_inputs_r, delayed_enable_r,
                    synced_inputs_ff, synced_enable_ff,
                    pretrigger_fill_counter, pretrigger_fifo >>
    /\ UNCHANGED engine_observers
    /\ UNCHANGED stream_vars
    /\ UNCHANGED spi_vars

\* A host attached to an ILA of any signal list and depth.  Either the
\* signals carry any values and the line is silent, or the line has
\* delivered any number of bytes up to one more than a read asks for.
FrontendInit ==
    /\ sample_depth \in 1..MaxDepth
    /\ samples_pretrigger = 0
    /\ with_enable = FALSE
    /\ stimulus = "steady"
    /\ EngineReset
    /\ o_domain = "sync"
    /\ StreamReset
    /\ NoSpi
    /\ signals \in SignalLists
    /\ \/ /\ values \in [1..Len(signals) -> 0..255]
          /\ \A k \in 1..Len(signals) :
                values[k] \in SignalValues(signals[k].width)
          /\ port = << >>
       \/ /\ values = [k \in 1..Len(signals) |-> 0]
          /\ \E n \in 0..(2 * sample_depth * bytes_per_sample + 1) :
                port = [i \in 1..n |-> DeviceByte(i)]
    /\ FrontendReset

FrontendNext == Refresh \/ ParseWord

FrontendSpec == FrontendInit /\ [][FrontendNext]_vars

\* C18: host buffer underrun is a hard failure: when the read returned
\* fewer than sample_depth * bytes_per_sample bytes, refresh() has failed
\* and has not replaced the cache with a shortened or partly decoded list.
C18_UnderrunFails ==
    (refreshes > 0 /\ read_length < sample_depth * bytes_per_sample)
        => (failed /\ ~installed)

\* C19: a refresh() that succeeded on a read holding at least a full trace
\* (the request is for twice the trace, so the line may deliver more, such
\* as two bursts back to back) has invoked the reader once and leaves
\* exactly sample_depth samples cached.
C19_RefreshCachesDepth ==
    (refreshes > 0 /\ ~failed
        /\ read_length >= sample_depth * bytes_per_sample)
        => (port_reads = refreshes /\ Len(samples) = sample_depth)

\* C20 (as stated): for every ordered signal list and every assignment of
\* values, _parse_sample of the word Cat forms returns under each signal's
\* name exactly that signal's value.
C20_DecodeRoundTrip ==
    parsed # << >> =>
        \A k \in 1..Len(signals) : parsed[1][signals[k].name] = values[k]

\* C20 (amended): the round trip holds for every ordered signal list whose
\* names are pairwise distinct.
C20_DecodeRoundTripDistinct ==
    (parsed # << >> /\ DistinctNames) =>
        \A k \in 1..Len(signals) : parsed[1][signals[k].name] = values[k]

\* Two signals of different names, widths and non-zero values have been
\* decoded from one word.
C20_Witness ==
    /\ parsed # << >>
    /\ Len(signals) = 2
    /\ DistinctNames
    /\ signals[1].width = 4
    /\ signals[2].width = 8
    /\ values = << 15, 1 >>
    /\ parsed[1][signals[1].name] = 15
    /\ parsed[1][signals[2].name] = 1

\* C29: capturing = 1 exactly when the FSM is in CAPTURE, whatever enable
\* is; sampling = 0 in IDLE; sampling = 1 implies capturing = 1; before the
\* first accepted trigger sampling and complete are both 0.
C29_StatusFlags ==
    /\ (capturing = 1) <=> (fsm = "CAPTURE")
    /\ fsm = "IDLE" => sampling = 0
    /\ sampling = 1 => capturing = 1
    /\ ~armed => (sampling = 0 /\ complete = 0)

\* The FSM is in CAPTURE with the write gated off: capturing is high while
\* sampling is low.
C29_Witness ==
    /\ fsm = "CAPTURE"
    /\ with_enable
    /\ capturing = 1
    /\ sampling = 0
    /\ write_position > 0

\* Entries held by the pretrigger FIFO: its inner queue and, when valid,
\* its output register.
Occupancy(f) == Len(f.inner) + f.r_rdy

\* The entry in the output register is taken on this edge (r_en and r_rdy).
FifoPop == pretrigger_filled = 1 /\ pretrigger_fifo.r_rdy = 1

\* An entry is written on this edge (w_en and w_rdy).
FifoPush ==
    Occupancy(pretrigger_fifo') =
        Occupancy(pretrigger_fifo) + 1 - (IF FifoPop THEN 1 ELSE 0)

\* C28: for samples_pretrigger >= 2, while the pipeline is not filled an
\* entry is pushed on every tick whatever enable is; the fill counter never
\* passes samples_pretrigger - 1; once filled, one entry is pushed and one
\* popped on every tick; the enable bit of an entry is the enable sampled
\* with its data.
C28_FillPolicy ==
    [][ samples_pretrigger >= 2 =>
          /\ pretrigger_filled = 0 => FifoPush
          /\ pretrigger_fill_counter' <= samples_pretrigger - 1
          /\ pretrigger_filled = 1 => (FifoPush /\ FifoPop)
          /\ with_enable =>
                \A i \in 1..Len(pretrigger_fifo'.inner) :
                    pretrigger_fifo'.inner[i].en = pretrigger_fifo'.inner[i].d.e
      ]_vars

\* What a stalled SENDING tick leaves alone: the index, first and the FSM
\* state, hence valid, last and the word the read port presents.
StreamHeld ==
    /\ current_sample_number' = current_sample_number
    /\ first' = first
    /\ send_fsm' = "SENDING"
    /\ mem' = mem
    /\ in_domain_valid' = 1
    /\ in_domain_last' = in_domain_last

\* C30 (as stated): on every SENDING tick on which ready is low the index,
\* first and the FSM state are unchanged, so valid stays asserted and
\* payload, first and last hold; the index advances by exactly one and first
\* is cleared only on ticks where valid and ready are both high.
C30_BackPressure ==
    [][ send_fsm = "SENDING" =>
          /\ StreamStall => StreamHeld
          /\ (current_sample_number' # current_sample_number \/ first' # first)
                => (StreamSend \/ StreamSendLast)
          /\ (StreamSend \/ StreamSendLast) =>
                /\ current_sample_number' = current_sample_number + 1
                /\ first' = 0
      ]_vars

\* C30 (amended): the same, the index advancing by one modulo 2^w, w being
\* the width of Signal(range(0, sample_depth)).
C30_BackPressureModulo ==
    [][ send_fsm = "SENDING" =>
          /\ StreamStall => StreamHeld
          /\ (current_sample_number' # current_sample_number \/ first' # first)
                => (StreamSend \/ StreamSendLast)
          /\ (StreamSend \/ StreamSendLast) =>
                /\ current_sample_number' =
                      (current_sample_number + 1) % Pow2(IndexWidth)
                /\ first' = 0
      ]_vars

\* The send FSM is in SENDING past the first word and the FIFO of the
\* crossing refuses the next one.
C30_Witness ==
    /\ o_domain # "sync"
    /\ send_fsm = "SENDING"
    /\ in_domain_valid = 1
    /\ cdc_w_rdy = 0
    /\ first = 0

\* C27: built with cs_idles_high = True the transaction is active while
\* cs = 0 (the index is latched to 1 on the falling edge of cs and reset to
\* 0 while cs = 1); built with cs_idles_high = False it is active while
\* cs = 1.
C27_ChipSelectPolarity ==
    [][ /\ cs_idles_high =>
             /\ (cs_now = 0 /\ spi_cs_past = 1)
                   => spi_current_sample_number' = 1 % Pow2(IndexWidth)
             /\ cs_now = 1 => spi_current_sample_number' = 0
        /\ ~cs_idles_high =>
             /\ cs_rose => spi_current_sample_number' = 1 % Pow2(IndexWidth)
             /\ cs_now = 0 => spi_current_sample_number' = 0
      ]_vars

(***************************************************************************)
(* The word sizes the wrappers compute from the engine's sample width.     *)
(***************************************************************************)
\* SyncSerialILA.__init__: 32-bit chunks, then up to a power of two.
words_per_sample == (sample_width + 31) \div 32

\* Mutant of spi_bits_per_sample: the 32-bit chunks are not rounded up to a
\* power of two.
spi_bits_per_sample_Chunks == words_per_sample * 4 * 8

spi_bits_per_sample == Pow2(bit_length(words_per_sample * 4 * 8 - 1))

spi_bytes_per_sample == spi_bits_per_sample \div 8

\* StreamILA.__init__ has run.
BuildStreamILA ==
    /\ word_size = NoWord
    /\ word_size' = [kind |-> "StreamILA", bits |-> bits_per_sample,
                     bytes |-> bytes_per_sample]
    /\ UNCHANGED << signals, values, port, samples, parsed, refreshes,
                    port_reads, read_length, failed, installed,
                    enumerations, enumerated, vcd, vcd_header, gtkw,
                    files, written, display_result >>
    /\ UNCHANGED ila_vars
    /\ UNCHANGED engine_observers
    /\ UNCHANGED stream_vars
    /\ UNCHANGED spi_vars

\* SyncSerialILA.__init__ has run.
BuildSyncSerialILA ==
    /\ word_size = NoWord
    /\ word_size' = [kind |-> "SyncSerialILA", bits |-> spi_bits_per_sample,
                     bytes |-> spi_bytes_per_sample]
    /\ UNCHANGED << signals, values, port, samples, parsed, refreshes,
                    port_reads, read_length, failed, installed,
                    enumerations, enumerated, vcd, vcd_header, gtkw,
                    files, written, display_result >>
    /\ UNCHANGED ila_vars
    /\ UNCHANGED engine_observers
    /\ UNCHANGED stream_vars
    /\ UNCHANGED spi_vars

\* AsyncSerialILA.__init__ has run: it builds a StreamILA and copies its
\* word size.
BuildAsyncSerialILA ==
    /\ word_size.kind = "StreamILA"
    /\ word_size' = [kind |-> "AsyncSerialILA", bits |-> word_size.bits,
                     bytes |-> word_size.bytes]
    /\ UNCHANGED << signals, values, port, samples, parsed, refreshes,
                    port_reads, read_length, failed, installed,
                    enumerations, enumerated, vcd, vcd_header, gtkw,
                    files, written, display_result >>
    /\ UNCHANGED ila_vars
    /\ UNCHANGED engine_observers
    /\ UNCHANGED stream_vars
    /\ UNCHANGED spi_vars

\* A wrapper around an engine of any sample width from 1 to MaxWidth.
WordSizeInit ==
    /\ sample_depth = 1
    /\ samples_pretrigger = 0
    /\ with_enable = FALSE
    /\ stimulus = "steady"
    /\ EngineReset
    /\ o_domain = "sync"
    /\ StreamReset
    /\ NoSpi
    /\ \E w \in 1..MaxWidth : signals = << [name |-> "a", width |-> w] >>
    /\ values = << 0 >>
    /\ port = << >>
    /\ FrontendReset

WordSizeNext ==
    BuildStreamILA \/ BuildSyncSerialILA \/ BuildAsyncSerialILA

WordSizeSpec == WordSizeInit /\ [][WordSizeNext]_vars

RECURSIVE IsPow2(_)
IsPow2(n) == n = 1 \/ (n > 1 /\ n % 2 = 0 /\ IsPow2(n \div 2))

\* n / d rounded up.
CeilDiv(n, d) == (n + d - 1) \div d

\* C25: the SyncSerialILA word is the sample width rounded up to the next
\* multiple of 4 bytes and then to the next power of two; bits_per_sample =
\* 8 * bytes_per_sample; the word is a power of two, at least 32 bits and at
\* least the sample width.
C25_SyncSerialWord ==
    word_size.kind = "SyncSerialILA" =>
        LET chunks == 4 * CeilDiv(CeilDiv(sample_width, 8), 4)
        IN  /\ IsPow2(word_size.bytes)
            /\ word_size.bytes >= chunks
            /\ word_size.bytes < 2 * chunks
            /\ word_size.bits = 8 * word_size.bytes
            /\ IsPow2(word_size.bits)
            /\ word_size.bits >= 32
            /\ word_size.bits >= sample_width

\* A 65-bit sample: three 32-bit chunks, sent as a 128-bit word.
C25_Witness ==
    /\ word_size.kind = "SyncSerialILA"
    /\ sample_width = 65
    /\ word_size.bytes = 16
    /\ word_size.bits = 128

\* C26: the StreamILA word is the smallest power of two that is at least
\* the sample width.
C26_StreamWord ==
    word_size.kind = "StreamILA" =>
        /\ IsPow2(word_size.bits)
        /\ word_size.bits >= sample_width
        /\ word_size.bits < 2 * sample_width

\* A 5-bit sample sent as an 8-bit word.
C26_Witness ==
    /\ word_size.kind = "StreamILA"
    /\ sample_width = 5
    /\ word_size.bits = 8

(***************************************************************************)
(* ILAFrontend: enumerate_samples, emit_vcd, _emit_gtkw and                *)
(* interactive_display.  Times are counted in half sample periods.         *)
(***************************************************************************)
\* self.ila.sample_period, in half sample periods.
sample_period == 2

\* self.samples is None: no refresh has assigned the cache.
NeedsRefresh == ~installed

\* The implicit refresh() of this enumeration raises.
RefreshRaises == NeedsRefresh /\ bytes_per_sample = 0

\* timestamp after n samples have been yielded: n additions of sample_period.
RECURSIVE Timestamp(_)
Timestamp(n) == IF n = 0 THEN 0 ELSE Timestamp(n - 1) + sample_period

\* The pairs the generator yields from a cache.
Pairs(cache) == [i \in 1..Len(cache) |-> << Timestamp(i - 1), cache[i] >>]

\* enumerate_samples, advanced until it is exhausted or raises.
enumerate_samples ==
    /\ IF NeedsRefresh
       THEN refresh
       ELSE UNCHANGED << port, port_reads, read_length, refreshes, failed,
                         installed, samples >>
    /\ enumerated' = IF RefreshRaises THEN << >> ELSE Pairs(samples')
    /\ enumerations' = enumerations + 1

\* Room for one more enumerating call within the bounds.
MayEnumerate ==
    /\ enumerations < MaxEnumerations
    /\ NeedsRefresh => refreshes < MaxRefreshes

\* The host exhausts one enumerate_samples() generator.
Enumerate ==
    /\ MayEnumerate
    /\ enumerate_samples
    /\ UNCHANGED << signals, values, parsed, word_size, vcd, vcd_header, gtkw,
                    files, written, display_result >>
    /\ UNCHANGED ila_vars
    /\ UNCHANGED engine_observers
    /\ UNCHANGED stream_vars
    /\ UNCHANGED spi_vars

\* The names of the signals in declared order: the order of sample.items()
\* when the names are distinct.
NameOrder == [k \in 1..Len(signals) |-> signals[k].name]

\* One writer.change(var, time, value).
Change(var, time, value) == [var |-> var, time |-> time, value |-> value]

\* The writer before the first sample: nothing written, clock_time = 0,
\* clock_value = 1.
VcdStart == [log |-> << >>, clock_time |-> 0, clock_value |-> 1]

\* while clock_time < timestamp: write the clock, toggle it, advance it by
\* half a sample period.
RECURSIVE ClockChanges(_, _)
ClockChanges(w, timestamp) ==
    IF w.clock_time < timestamp
    THEN ClockChanges(
             [log |-> Append(w.log,
                             Change("ila_clock", w.clock_time, w.clock_value)),
              clock_time |-> w.clock_time + sample_period \div 2,
              clock_value |-> 1 - w.clock_value],
             timestamp)
    ELSE w

\* Mutant of SignalChange: the signal's change is written before the clock
\* is brought up to the sample's time.
SignalChange_BeforeClock(w, add_clock, timestamp, name, value) ==
    LET s == [w EXCEPT !.log = Append(w.log, Change(name, timestamp, value))]
    IN  IF add_clock THEN ClockChanges(s, timestamp) ELSE s

\* The body of the loop over sample.items().
SignalChange(w, add_clock, timestamp, name, value) ==
    LET c == IF add_clock THEN ClockChanges(w, timestamp) ELSE w
    IN  [c EXCEPT !.log = Append(c.log, Change(name, timestamp, value))]

\* The loop over sample.items(), from the k-th name on.
RECURSIVE SampleChanges(_, _, _, _, _)
SampleChanges(w, add_clock, timestamp, sample, k) ==
    IF k > Len(NameOrder) THEN w
    ELSE SampleChanges(
             SignalChange(w, add_clock, timestamp, NameOrder[k],
                          sample[NameOrder[k]]),
             add_clock, timestamp, sample, k + 1)

\* The loop over enumerate_samples(), from the i-th pair on.
RECURSIVE Dump(_, _, _, _)
Dump(w, add_clock, pairs, i) ==
    IF i > Len(pairs) THEN w
    ELSE Dump(SampleChanges(w, add_clock, pairs[i][1], pairs[i][2], 1),
              add_clock, pairs, i + 1)

\* The variables emit_vcd registers: the clock first if it is added.
Registered(add_clock) ==
    (IF add_clock THEN << "ila_clock" >> ELSE << >>) \o NameOrder

\* The traces _emit_gtkw writes: the clock trace, then one per signal.
GtkwTraces == << "ila_clock" >> \o NameOrder

\* emit_vcd writes nothing past the header: register_var refuses a second
\* variable of the same name in one scope, or the implicit refresh raises.
EmitRaises == ~DistinctNames \/ RefreshRaises

\* emit_vcd(filename, gtkw_filename, add_clock).  vcd_header and vcd are the
\* variables and the changes of a waveform written to its end, gtkw the
\* layout written by the same call.
emit_vcd(add_clock, with_gtkw) ==
    /\ IF DistinctNames
       THEN enumerate_samples
       ELSE UNCHANGED << port, port_reads, read_length, refreshes, failed,
                         installed, samples, enumerated, enumerations >>
    /\ IF EmitRaises
       THEN /\ vcd_header' = << >>
            /\ vcd' = << >>
            /\ gtkw' = << >>
       ELSE /\ vcd_header' = Registered(add_clock)
            /\ vcd' = Dump(VcdStart, add_clock, enumerated', 1).log
            /\ gtkw' = IF with_gtkw THEN GtkwTraces ELSE << >>

\* The host calls emit_vcd.
EmitVcd ==
    /\ MayEnumerate
    /\ \E add_clock \in BOOLEAN, with_gtkw \in BOOLEAN :
          emit_vcd(add_clock, with_gtkw)
    /\ UNCHANGED << signals, values, parsed, word_size,
                    files, written, display_result >>
    /\ UNCHANGED ila_vars
    /\ UNCHANGED engine_observers
    /\ UNCHANGED stream_vars
    /\ UNCHANGED spi_vars

\* What can go wrong in interactive_display besides what emit_vcd raises by
\* itself: the waveform or the layout cannot be opened, a write to either
\* fails, the viewer exits with an error or cannot be started.
Faults ==
    { "none", "open_vcd", "write_vcd", "open_gtkw", "write_gtkw",
      "viewer_exit", "viewer_missing" }

\* The temporary files that exist when the try block is left.
Created(fault) ==
    IF fault = "open_vcd" THEN {}
    ELSE IF EmitRaises \/ fault \in {"write_vcd", "open_gtkw"} THEN {"vcd"}
    ELSE {"vcd", "gtkw"}

\* The try block is left by an exception.
BodyRaises(fault) ==
    EmitRaises \/ fault \notin {"none", "viewer_exit"}

\* Mutant of Finally: the files are removed after the viewer only, not in a
\* finally clause.
Finally_OnReturn(fault) == IF BodyRaises(fault) THEN Created(fault) ELSE {}

\* finally: os.remove(vcd_filename), then os.remove(gtkw_filename); a
\* remove of a file that does not exist raises and ends the clause.
Finally(fault) ==
    LET after_vcd == Created(fault) \ {"vcd"}
    IN  IF "vcd" \in Created(fault) THEN after_vcd \ {"gtkw"} ELSE after_vcd

\* The host calls interactive_display.
InteractiveDisplay ==
    /\ MayEnumerate
    /\ \E fault \in Faults :
          /\ IF fault # "open_vcd" /\ DistinctNames
             THEN enumerate_samples
             ELSE UNCHANGED << port, port_reads, read_length, refreshes,
                               failed, installed, samples, enumerated,
                               enumerations >>
          /\ written' = Created(fault)
          /\ files' = Finally(fault)
          /\ display_result' =
                IF BodyRaises(fault) \/ Created(fault) # {"vcd", "gtkw"}
                THEN "raised" ELSE "returned"
    /\ UNCHANGED << signals, values, parsed, word_size, vcd, vcd_header, gtkw >>
    /\ UNCHANGED ila_vars
    /\ UNCHANGED engine_observers
    /\ UNCHANGED stream_vars
    /\ UNCHANGED spi_vars

HostNext == Refresh \/ Enumerate \/ EmitVcd \/ InteractiveDisplay

HostSpec == FrontendInit /\ [][HostNext]_vars

\* C21: enumerate_samples() fetches if and only if nothing is cached when
\* it is first advanced; every enumeration after the first performs no
\* transport read; each yields, as its i-th pair (from 0), the timestamp
\* i * sample_period and the i-th cached sample.
C21_LazyEnumeration ==
    [][ enumerations' = enumerations + 1 =>
          /\ (port_reads' = port_reads + 1) <=> NeedsRefresh
          /\ ~NeedsRefresh => port_reads' = port_reads
          /\ enumerations >= 1 => port_reads' = port_reads
          /\ enumerated' =
                [i \in 1..Len(samples') |->
                    << (i - 1) * sample_period, samples'[i] >>]
      ]_vars

\* C22: emit_vcd writes the value changes (those of the signals and, with
\* add_clock, those of the clock) in non-decreasing time order; the values
\* written for a signal are, in order, those enumerate_samples() yields for
\* it; with add_clock the clock goes 1, 0, 1, ... at the times 0, 1, 2, ...
\* in half sample periods, up to the time of the last sample.
C22_WaveformOrder ==
    [][ (EmitVcd /\ vcd_header' # << >>) =>
          LET log      == vcd'
              IsClock(e) == e.var = "ila_clock"
              clock    == SelectSeq(log, IsClock)
              last     == IF enumerated' = << >> THEN 0
                          ELSE enumerated'[Len(enumerated')][1]
          IN  /\ \A i \in 1..(Len(log) - 1) : log[i].time <= log[i + 1].time
              /\ \A k \in 1..Len(signals) :
                    LET IsSignal(e) == e.var = signals[k].name
                        changes == SelectSeq(log, IsSignal)
                    IN  /\ Len(changes) = Len(enumerated')
                        /\ \A i \in 1..Len(changes) :
                              /\ changes[i].value =
                                    enumerated'[i][2][signals[k].name]
                              /\ changes[i].time = enumerated'[i][1]
              /\ IF "ila_clock" \in { vcd_header'[j] : j \in 1..Len(vcd_header') }
                 THEN /\ Len(clock) = last
                      /\ \A i \in 1..Len(clock) :
                            /\ clock[i].time = i - 1
                            /\ clock[i].value = i % 2
                 ELSE clock = << >>
      ]_vars

\* A waveform of two signals and the clock holding two samples: the changes
\* of the first sample, the clock at 0 and at 1, the changes of the second.
C22_Witness ==
    /\ vcd_header = << "ila_clock", "a", "b" >>
    /\ Len(vcd) = 6
    /\ vcd[1].var = "a" /\ vcd[1].time = 0
    /\ vcd[3] = Change("ila_clock", 0, 1)
    /\ vcd[4] = Change("ila_clock", 1, 0)
    /\ vcd[5].var = "a" /\ vcd[5].time = 2
    /\ vcd[5].value # vcd[1].value

\* C24: the layout emit_vcd writes lists one trace per signal in declared
\* order, and contains the clock trace if and only if the waveform holds
\* the clock variable, that is if and only if add_clock is true.
C24_LayoutMatchesWaveform ==
    gtkw # << >> =>
        LET IsSignal(t) == t # "ila_clock"
        IN  /\ SelectSeq(gtkw, IsSignal) = NameOrder
            /\ ("ila_clock" \in { gtkw[j] : j \in 1..Len(gtkw) })
                  <=> ("ila_clock" \in { vcd_header[j] : j \in 1..Len(vcd_header) })

\* C23: when interactive_display() has been left, by return or by an
\* exception, neither temporary file exists: whether the viewer ran, exited
\* with an error or could not be started, and whether or not writing the
\* files failed.
C23_NoTemporaryLeft == display_result # "none" => files = {}

\* interactive_display was left by an exception raised while the layout was
\* being written, with both files in existence, and neither is left.
C23_Witness ==
    /\ display_result = "raised"
    /\ written = {"vcd", "gtkw"}
    /\ files = {}

\* C31: StreamILA never starts a burst on a stale completion.  On the edge
\* that takes the send FSM from IDLE to SAMPLING the engine goes to CAPTURE
\* with the write cursor at 0 and complete cleared; while the send FSM is in
\* SAMPLING complete is 1 only once the engine is back in IDLE, and it rises
\* only on the edge that writes the last address of the session; SAMPLING
\* is left for SENDING only on complete = 1.
C31_FreshCompletion ==
    [][ /\ (send_fsm = "IDLE" /\ send_fsm' = "SAMPLING") =>
              (fsm' = "CAPTURE" /\ write_position' = 0 /\ complete' = 0)
        /\ (send_fsm = "SAMPLING" /\ complete = 1) => fsm = "IDLE"
        /\ (send_fsm = "SAMPLING" /\ complete = 0 /\ complete' = 1) =>
              (fsm = "CAPTURE" /\ write_position = sample_depth - 1)
        /\ (send_fsm = "SAMPLING" /\ send_fsm' = "SENDING") =>
              (complete = 1 /\ fsm = "IDLE")
      ]_vars

\* The send FSM waits in SAMPLING with the index a previous burst has left,
\* and the session of the new trigger has completed.
C31_Witness ==
    /\ send_fsm = "SAMPLING"
    /\ current_sample_number # 0
    /\ complete = 1
    /\ fsm = "IDLE"

\* C32: for StreamILA and AsyncSerialILA and every sample width from 1 to
\* MaxWidth, bytes_per_sample is at least 1 and 8 * bytes_per_sample is at
\* least the sample width: the sample fits in the bytes sent for it and the
\* host slices the byte stream with a non-zero step.
C32_WordHoldsSample ==
    word_size.kind \in {"StreamILA", "AsyncSerialILA"} =>
        /\ word_size.bytes >= 1
        /\ 8 * word_size.bytes >= sample_width

(***************************************************************************)
(* The serial line of AsyncSerialILA, from the capture buffer to the       *)
(* host's cache.  The transmitter is amlib.stream.uart, whose behaviour    *)
(* is taken from the specification of the line protocol: every stream      *)
(* word goes out as bytes_per_sample byte frames, least significant byte   *)
(* first, with no framing between the words.                               *)
(***************************************************************************)

\* The words Cat forms from the first n signals, each signal at 0, at 1 or
\* at all ones.
RECURSIVE SampleWords(_)
SampleWords(n) ==
    IF n = 0 THEN {0}
    ELSE { w + v * Pow2(Offset(signals, n - 1)) :
              w \in SampleWords(n - 1),
              v \in SignalValues(signals[n].width) }

\* The byte frames of one stream word, in the order they are sent.
UARTMultibyteTransmitter(word, byte_width) ==
    [j \in 1..byte_width |-> (word \div Pow2(8 * (j - 1))) % 256]

\* The byte frames of the first n words of a burst read from buffer.
RECURSIVE LineBytes(_, _)
LineBytes(buffer, n) ==
    IF n = 0 THEN << >>
    ELSE LineBytes(buffer, n - 1)
            \o UARTMultibyteTransmitter(buffer[n - 1], bytes_per_sample)

\* One trigger of AsyncSerialILA: the session fills the buffer with the
\* words the signals carried, and the burst of sample_depth words is sent
\* down the line.
LineBurst ==
    /\ triggers = 0
    /\ triggers' = 1
    /\ complete' = 1
    /\ \E buffer \in [0..(sample_depth - 1) -> SampleWords(Len(signals))] :
          /\ mem' = buffer
          /\ port' = port \o LineBytes(buffer, sample_depth)
    /\ UNCHANGED << sample_depth, samples_pretrigger, with_enable, stimulus,
                    fsm, write_position, delayed_inputs_r, delayed_enable_r,
                    synced_inputs_ff, synced_enable_ff,
                    pretrigger_fill_counter, pretrigger_fifo >>
    /\ UNCHANGED engine_observers
    /\ UNCHANGED << o_domain, send_fsm, current_sample_number, first, cdc,
                    burst, out_words, blocked >>
    /\ UNCHANGED spi_vars
    /\ UNCHANGED << signals, values, samples, parsed, refreshes, port_reads,
                    read_length, failed, installed >>
    /\ UNCHANGED output_vars

\* A host attached to an AsyncSerialILA of any signal list and depth, the
\* line silent.
LineInit ==
    /\ sample_depth \in 1..MaxDepth
    /\ samples_pretrigger = 0
    /\ with_enable = FALSE
    /\ stimulus = "steady"
    /\ EngineReset
    /\ o_domain = "sync"
    /\ StreamReset
    /\ NoSpi
    /\ signals \in SignalLists
    /\ values = [k \in 1..Len(signals) |-> 0]
    /\ port = << >>
    /\ FrontendReset

LineNext == LineBurst \/ Refresh

LineSpec == LineInit /\ [][LineNext]_vars

\* C33: with every stream word sent as bytes_per_sample byte frames least
\* significant byte first, _split_samples followed by _parse_sample gives,
\* for every sample index and every signal, the value the capture buffer
\* holds.  Stated for a refresh that read the burst, over signal lists of
\* pairwise distinct names.
C33_LineRoundTrip ==
    (installed /\ read_length > 0 /\ DistinctNames) =>
        /\ Len(samples) = sample_depth
        /\ \A i \in 1..sample_depth : \A k \in 1..Len(signals) :
              samples[i][signals[k].name] =
                 Slice(mem[i - 1], Offset(signals, k - 1), signals[k].width)

====
